---------------------------- MODULE Spec2Model ----------------------------
(***************************************************************************)
(* Model of the Mythic L2 sequencer tile (firedancer/src/sequencer):       *)
(* the fee-priority max-heap, block construction, slot/epoch advancement   *)
(* (fd_sequencer.h) and the tile callbacks that drive them                 *)
(* (fd_sequencer_tile.c).                                                  *)
(***************************************************************************)
EXTENDS Integers, Sequences, FiniteSets, TLC

VARIABLES tile,      \* fd_sequencer_tile_t, queue storage included
          clock,     \* the tick counter, where it is a monotonic counter
          phase,     \* "running" until fd_sequencer_tile_fini has returned
          chain,     \* the blocks housekeeping produced: how many, the
                     \* header of the latest, and the sum of the txn_count
                     \* fields of all their headers
          last       \* the latest call: its name, inputs and results

vars == <<tile, clock, phase, chain, last>>

(***************************************************************************)
(* Bounds of the model.                                                    *)
(***************************************************************************)
QueueCap == 2        \* tx_queue_cap of the tile driven by its callbacks
HeapCap  == 4        \* tx_queue_cap of the tile driven by direct core calls
MaxTick  == 4        \* largest value fd_tickcount() returns
FragCap  == 1        \* tx_queue_cap of the tile fed fragments only
MaxFrags == 2        \* most fragments delivered for one logical unit
LiveCap  == 1        \* tx_queue_cap of the tile under the forward-moving clock

(***************************************************************************)
(* Program constants.                                                      *)
(***************************************************************************)
FD_SEQUENCER_TXN_MTU == 1232
BaseFee              == 5000
StackTxnsMax         == 10000
SigOff               == 1
SigSz                == 64
HashSz               == 32
PrivKeySz            == 64

(***************************************************************************)
(* Byte arrays.  A byte array is kept run-length encoded: a sequence of    *)
(* runs <<b, n>> (n >= 1 copies of byte b), adjacent runs holding          *)
(* different bytes, so two arrays are equal exactly when their encodings   *)
(* are.                                                                    *)
(***************************************************************************)
BsFill(b, n) == IF n = 0 THEN <<>> ELSE << <<b, n>> >>

RECURSIVE BsLen(_)
BsLen(s) == IF s = <<>> THEN 0 ELSE s[1][2] + BsLen(Tail(s))

BsCat(s, t) ==
  IF s = <<>> THEN t
  ELSE IF t = <<>> THEN s
  ELSE IF s[Len(s)][1] = t[1][1]
       THEN SubSeq(s, 1, Len(s) - 1)
              \o << <<t[1][1], s[Len(s)][2] + t[1][2]>> >> \o Tail(t)
       ELSE s \o t

RECURSIVE BsTake(_, _)
BsTake(s, n) ==
  IF n = 0 \/ s = <<>> THEN <<>>
  ELSE IF s[1][2] <= n THEN BsCat(<<s[1]>>, BsTake(Tail(s), n - s[1][2]))
  ELSE << <<s[1][1], n>> >>

RECURSIVE BsDrop(_, _)
BsDrop(s, n) ==
  IF n = 0 \/ s = <<>> THEN s
  ELSE IF s[1][2] <= n THEN BsDrop(Tail(s), n - s[1][2])
  ELSE << <<s[1][1], s[1][2] - n>> >> \o Tail(s)

\* fd_memcpy( dst, src, n ): the first n bytes of dst replaced by those of src
Memcpy(dst, src, n) == BsCat(BsTake(src, n), BsDrop(dst, n))

\* fd_memset( dst, 0, n ) over a whole array of n bytes
Zeros(n) == BsFill(0, n)

(***************************************************************************)
(* ulong values that can span the whole 64-bit range (fees, the fee        *)
(* total): four 16-bit limbs, most significant first.                      *)
(***************************************************************************)
Limb == 2^16

U64(n) == <<0, 0, n \div Limb, n % Limb>>

U64Max == <<Limb - 1, Limb - 1, Limb - 1, Limb - 1>>

\* x < y on ulong
U64Lt(x, y) ==
  \E i \in 1..4 : x[i] < y[i] /\ \A j \in 1..(i - 1) : x[j] = y[j]

\* x >= y and x > y on ulong
U64Ge(x, y) == ~U64Lt(x, y)
U64Gt(x, y) == U64Lt(y, x)

\* x + y on ulong: the sum modulo 2^64
U64Add(x, y) ==
  LET s4 == x[4] + y[4]
      s3 == x[3] + y[3] + (s4 \div Limb)
      s2 == x[2] + y[2] + (s3 \div Limb)
      s1 == x[1] + y[1] + (s2 \div Limb)
  IN  <<s1 % Limb, s2 % Limb, s3 % Limb, s4 % Limb>>

Min(a, b) == IF a <= b THEN a ELSE b
Max(a, b) == IF a >= b THEN a ELSE b

\* Body(v), with v computed once however often Body uses it: a local
\* variable assigned once and read many times
With(v, Body(_)) == CHOOSE y \in { Body(x) : x \in {v} } : TRUE

(***************************************************************************)
(* Digests and signatures.  sha256 and ed25519 are external primitives:    *)
(* a digest is the term "sha256 of these bytes" and a signature the term   *)
(* "these bytes signed under this key pair", so two digests (signatures)   *)
(* are equal exactly when they were made from the same input.  A 32-byte   *)
(* or 64-byte field that was zero-filled instead is the zero term.         *)
(***************************************************************************)
Zero32 == [zero |-> TRUE, digest_of |-> <<>>]

\* fd_sha256_init / fd_sha256_append / fd_sha256_fini
Sha256Init == <<>>
Sha256Append(ctx, data) == BsCat(ctx, data)
Sha256Fini(ctx) == [zero |-> FALSE, digest_of |-> ctx]

ZeroSig == [zero |-> TRUE, msg |-> <<>>, pub |-> <<>>, priv |-> <<>>]

\* fd_ed25519_sign( sig, msg, sz, public_key, private_key, sha )
Ed25519Sign(msg, pub, priv) == [zero |-> FALSE, msg |-> msg, pub |-> pub, priv |-> priv]

(***************************************************************************)
(* struct fd_sequencer_block_hdr: field order, offsets and sizes.  The     *)
(* struct is 8-byte aligned, so 4 padding bytes follow the signature.      *)
(***************************************************************************)
HdrLayout == << [name |-> "slot",             off |-> 0,   sz |-> 8],
                [name |-> "parent_hash",      off |-> 8,   sz |-> 32],
                [name |-> "merkle_root",      off |-> 40,  sz |-> 32],
                [name |-> "timestamp",        off |-> 72,  sz |-> 8],
                [name |-> "sequencer_pubkey", off |-> 80,  sz |-> 32],
                [name |-> "txn_count",        off |-> 112, sz |-> 4],
                [name |-> "signature",        off |-> 116, sz |-> 64],
                [name |-> "pad",              off |-> 180, sz |-> 4] >>

\* offsetof( fd_sequencer_block_hdr_t, signature )
OffsetOfSignature == 116
\* sizeof( fd_sequencer_block_hdr_t )
SizeOfHdr == 184

\* the first len bytes of the header object: the fields that lie wholly
\* inside [0, len), in memory order
HdrBytes(hdr, len) ==
  LET idx == { i \in 1..Len(HdrLayout) : HdrLayout[i].off + HdrLayout[i].sz <= len }
  IN  [ i \in 1..Cardinality(idx) |-> <<HdrLayout[i].name, hdr[HdrLayout[i].name]>> ]

\* fd_memset( hdr, 0, sizeof(fd_sequencer_block_hdr_t) )
ZeroHdr == [ slot |-> 0, parent_hash |-> Zero32, merkle_root |-> Zero32,
             timestamp |-> 0, sequencer_pubkey |-> Zeros(HashSz), txn_count |-> 0,
             signature |-> ZeroSig, pad |-> Zeros(4) ]

(***************************************************************************)
(* Transaction priority queue (max-heap ordered by fee).                   *)
(* tile.tx_queue holds the array elements tx_queue[0 .. tx_queue_cnt):     *)
(* element i of the C array is tx_queue[i + 1] here.  The slots at and     *)
(* after tx_queue_cnt are written before they are read, so they are not    *)
(* kept.                                                                   *)
(***************************************************************************)
Swap(q, i, j) == [q EXCEPT ![i + 1] = q[j + 1], ![j + 1] = q[i + 1]]

\* the sift-up loop of fd_sequencer_txn_queue_push
RECURSIVE SiftUp(_, _)
SiftUp(q, idx) ==
  IF idx > 0
  THEN LET parent == (idx - 1) \div 2
       IN  IF U64Ge(q[parent + 1].fee, q[idx + 1].fee) THEN q
           ELSE SiftUp(Swap(q, idx, parent), parent)
  ELSE q

\* a faulty fd_sequencer_txn_queue_push, for contrast: the capacity test made
\* with > instead of >=
PushPastCapacity(t, txn) ==
  IF t.tx_queue_cnt > t.tx_queue_cap THEN [ret |-> 0, tile |-> t]
  ELSE LET idx == t.tx_queue_cnt
       IN  [ret  |-> 1,
            tile |-> [t EXCEPT !.tx_queue_cnt = idx + 1,
                               !.tx_queue = SiftUp(Append(t.tx_queue, txn), idx)]]

\* fd_sequencer_txn_queue_push: the tile afterwards and the value returned
fd_sequencer_txn_queue_push(t, txn) ==
  IF t.tx_queue_cnt >= t.tx_queue_cap THEN [ret |-> 0, tile |-> t]
  ELSE LET idx == t.tx_queue_cnt
       IN  [ret  |-> 1,
            tile |-> [t EXCEPT !.tx_queue_cnt = idx + 1,
                               !.tx_queue = SiftUp(Append(t.tx_queue, txn), idx)]]

\* sift-down that compares the right child with the node, not with the
\* larger of node and left child
RECURSIVE SiftDownRightVsNode(_, _, _)
SiftDownRightVsNode(q, idx, cnt) ==
  LET left  == 2 * idx + 1
      right == 2 * idx + 2
      best1 == IF left < cnt /\ U64Gt(q[left + 1].fee, q[idx + 1].fee)
               THEN left ELSE idx
      best  == IF right < cnt /\ U64Gt(q[right + 1].fee, q[idx + 1].fee)
               THEN right ELSE best1
  IN  IF best = idx THEN q ELSE SiftDownRightVsNode(Swap(q, idx, best), best, cnt)

\* the sift-down loop of fd_sequencer_txn_queue_pop over tx_queue[0 .. cnt)
RECURSIVE SiftDown(_, _, _)
SiftDown(q, idx, cnt) ==
  LET left  == 2 * idx + 1
      right == 2 * idx + 2
      best1 == IF left < cnt /\ U64Gt(q[left + 1].fee, q[idx + 1].fee)
               THEN left ELSE idx
      best  == IF right < cnt /\ U64Gt(q[right + 1].fee, q[best1 + 1].fee)
               THEN right ELSE best1
  IN  IF best = idx THEN q ELSE SiftDown(Swap(q, idx, best), best, cnt)

\* a faulty fd_sequencer_txn_queue_pop, for contrast: the entry before the
\* last one is moved to the root, so the last entry is lost and another is
\* kept twice
PopMovesWrongEntry(t, out) ==
  IF t.tx_queue_cnt = 0 THEN [ret |-> 0, out |-> out, tile |-> t]
  ELSE LET cnt   == t.tx_queue_cnt - 1
           moved == IF cnt > 0
                    THEN SiftDown(<<t.tx_queue[cnt]>> \o SubSeq(t.tx_queue, 2, cnt),
                                  0, cnt)
                    ELSE <<>>
       IN  [ret  |-> 1,
            out  |-> t.tx_queue[1],
            tile |-> [t EXCEPT !.tx_queue_cnt = cnt, !.tx_queue = moved]]

\* fd_sequencer_txn_queue_pop: the tile afterwards, the value returned and
\* the element written to *out (out is the caller's when nothing is written)
fd_sequencer_txn_queue_pop(t, out) ==
  IF t.tx_queue_cnt = 0 THEN [ret |-> 0, out |-> out, tile |-> t]
  ELSE LET cnt   == t.tx_queue_cnt - 1
           moved == IF cnt > 0
                    THEN SiftDown(<<t.tx_queue[cnt + 1]>> \o SubSeq(t.tx_queue, 2, cnt),
                                  0, cnt)
                    ELSE <<>>
       IN  [ret  |-> 1,
            out  |-> t.tx_queue[1],
            tile |-> [t EXCEPT !.tx_queue_cnt = cnt, !.tx_queue = moved]]

NULL == [null |-> TRUE]

\* fd_sequencer_txn_queue_peek: the element pointed to, or NULL
fd_sequencer_txn_queue_peek(t) ==
  IF t.tx_queue_cnt = 0 THEN NULL ELSE t.tx_queue[1]

\* fd_sequencer_txn_queue_cnt
fd_sequencer_txn_queue_cnt(t) == t.tx_queue_cnt

(***************************************************************************)
(* Block construction.                                                     *)
(***************************************************************************)
\* a faulty PopLoop, for contrast: the loop bound tested with <= instead of <
RECURSIVE PopLoopOffByOne(_, _, _, _)
PopLoopOffByOne(t, out, n, max_txns) ==
  IF n <= max_txns
  THEN With(fd_sequencer_txn_queue_pop(t, NULL), LAMBDA r :
         IF r.ret = 0 THEN [tile |-> t, out |-> out]
         ELSE PopLoopOffByOne(r.tile, Append(out, r.out), n + 1, max_txns))
  ELSE [tile |-> t, out |-> out]

\* the pop loop of fd_sequencer_build_block: out is txns_out[0 .. n)
RECURSIVE PopLoop(_, _, _, _)
PopLoop(t, out, n, max_txns) ==
  IF n < max_txns
  THEN With(fd_sequencer_txn_queue_pop(t, NULL), LAMBDA r :
         IF r.ret = 0 THEN [tile |-> t, out |-> out]
         ELSE PopLoop(r.tile, Append(out, r.out), n + 1, max_txns))
  ELSE [tile |-> t, out |-> out]

\* a faulty MerkleLoop, for contrast: the signatures appended last entry first
RECURSIVE MerkleLoopReversed(_, _, _, _)
MerkleLoopReversed(ctx, out, i, n) ==
  IF i < n THEN MerkleLoopReversed(Sha256Append(ctx, out[n - i].sig), out, i + 1, n)
  ELSE ctx

\* the fd_sha256_append loop over txns_out[i].sig, i in [i, n)
RECURSIVE MerkleLoop(_, _, _, _)
MerkleLoop(ctx, out, i, n) ==
  IF i < n THEN MerkleLoop(Sha256Append(ctx, out[i + 1].sig), out, i + 1, n)
  ELSE ctx

\* the fee_total += txns_out[i].fee loop, i in [i, n)
RECURSIVE FeeLoop(_, _, _, _)
FeeLoop(total, out, i, n) ==
  IF i < n THEN FeeLoop(U64Add(total, out[i + 1].fee), out, i + 1, n)
  ELSE total

\* the empty-block branch: the header is zero-filled, then four fields set
EmptyHdr(t) ==
  [ZeroHdr EXCEPT !.slot             = t.current_slot,
                  !.parent_hash      = t.parent_hash,
                  !.sequencer_pubkey = t.sequencer_identity,
                  !.txn_count        = 0]

\* the header fields filled in for a block of n >= 1 transactions; hdr is
\* the caller's object, whose other bytes stay as they were
FillHdr(t, hdr, merkle, n, wallclock) ==
  [hdr EXCEPT !.slot             = t.current_slot,
              !.txn_count        = n,
              !.timestamp        = wallclock,
              !.parent_hash      = t.parent_hash,
              !.merkle_root      = merkle,
              !.sequencer_pubkey = t.sequencer_identity]

\* the header signed: the message is the header bytes up to the signature
SignHdr(t, hdr) ==
  [hdr EXCEPT !.signature = Ed25519Sign(HdrBytes(hdr, OffsetOfSignature),
                                        t.sequencer_identity,
                                        t.sequencer_privkey)]

\* fd_sequencer_build_block: the tile afterwards, *hdr, txns_out[0 .. n)
\* and the value returned.  wallclock is what fd_log_wallclock() returns.
fd_sequencer_build_block(t, hdr, max_txns, wallclock) ==
  With(PopLoop(t, <<>>, 0, max_txns), LAMBDA d :
    LET n == Len(d.out)
    IN  IF n = 0
        THEN [ret |-> 0, hdr |-> EmptyHdr(d.tile), txns |-> d.out, tile |-> d.tile]
        ELSE LET merkle == Sha256Fini(MerkleLoop(Sha256Init, d.out, 0, n))
                 signed == SignHdr(d.tile, FillHdr(d.tile, hdr, merkle, n, wallclock))
             IN  [ret  |-> n,
                  hdr  |-> signed,
                  txns |-> d.out,
                  tile |-> [d.tile EXCEPT
                              !.fee_total = FeeLoop(d.tile.fee_total, d.out, 0, n)]])

(***************************************************************************)
(* Slot / epoch advancement.  current_slot and block_count count the       *)
(* blocks produced and stay far below 2^64.                                *)
(***************************************************************************)
\* a faulty IsEpochBoundary, for contrast: the test made on the slot before the increment
IsEpochBoundaryOldSlot(slot, epoch_length_slots) ==
  (slot - 1) > 0 /\ ((slot - 1) % epoch_length_slots) = 0

\* a faulty IsEpochBoundary, for contrast: every new slot taken for the
\* first of an epoch
IsEpochBoundaryEverySlot(slot, epoch_length_slots) ==
  slot > 0

\* the epoch-boundary test of fd_sequencer_advance_slot on the new slot
IsEpochBoundary(slot, epoch_length_slots) ==
  slot > 0 /\ (slot % epoch_length_slots) = 0

\* a faulty fd_sequencer_advance_slot, for contrast: the slot not advanced after an empty
\* block (txn_count, the count of accepted transactions, still 0)
AdvanceSlotUnlessIdle(t) ==
  IF t.txn_count = 0
  THEN [ret |-> 0, tile |-> [t EXCEPT !.block_count = @ + 1]]
  ELSE [ret |-> 0, tile |-> [t EXCEPT !.current_slot = @ + 1, !.block_count = @ + 1]]

\* fd_sequencer_advance_slot: the tile afterwards and the value returned
fd_sequencer_advance_slot(t) ==
  LET t1 == [t EXCEPT !.current_slot = @ + 1, !.block_count = @ + 1]
  IN  IF IsEpochBoundary(t1.current_slot, t1.cfg.epoch_length_slots)
      THEN [ret |-> 1, tile |-> [t1 EXCEPT !.current_epoch = @ + 1]]
      ELSE [ret |-> 0, tile |-> t1]

(***************************************************************************)
(* Tile callbacks (fd_sequencer_tile.c), as functions of the tile and of   *)
(* what the callback reads.                                                *)
(***************************************************************************)
\* the tile state fd_sequencer_tile_unprivileged_init leaves, given enough
\* scratch; now is what fd_tickcount() returns
InitTile(now, cap) ==
  [ sequencer_identity |-> Zeros(HashSz),
    sequencer_privkey  |-> Zeros(PrivKeySz),
    current_slot       |-> 0,
    current_epoch      |-> 0,
    block_count        |-> 0,
    txn_count          |-> 0,
    block_start_ticks  |-> now,
    parent_hash        |-> Zero32,
    tx_queue           |-> <<>>,
    tx_queue_cnt       |-> 0,
    tx_queue_cap       |-> cap,
    fee_total          |-> U64(0),
    last_metrics_ticks |-> now,
    cfg                |-> [ block_time_ns      |-> 400000000,
                             max_txns_per_block |-> 10000,
                             epoch_length_slots |-> 432000 ],
    frag_buf           |-> Zeros(FD_SEQUENCER_TXN_MTU),
    frag_buf_sz        |-> 0 ]

\* a faulty fd_sequencer_tile_during_frag, for contrast: an oversized fragment
\* ignored, what was staged before kept
DuringFragKeepStaged(t, chunk, sz) ==
  IF sz > FD_SEQUENCER_TXN_MTU THEN t
  ELSE [t EXCEPT !.frag_buf = Memcpy(t.frag_buf, chunk, sz), !.frag_buf_sz = sz]

\* fd_sequencer_tile_during_frag; chunk is the memory the chunk argument
\* points to
fd_sequencer_tile_during_frag(t, chunk, sz) ==
  IF sz > FD_SEQUENCER_TXN_MTU THEN [t EXCEPT !.frag_buf_sz = 0]
  ELSE [t EXCEPT !.frag_buf = Memcpy(t.frag_buf, chunk, sz), !.frag_buf_sz = sz]

\* the entry fd_sequencer_tile_after_frag builds from the staging buffer;
\* opt_sig is the pointer argument: null, or the ulong it points to
StagedTxn(t, opt_sig, now) ==
  LET payload == Memcpy(Zeros(FD_SEQUENCER_TXN_MTU), t.frag_buf, t.frag_buf_sz)
  IN  [ payload        |-> payload,
        payload_sz     |-> t.frag_buf_sz,
        received_ticks |-> now,
        sig            |-> IF t.frag_buf_sz >= SigOff + SigSz
                           THEN BsTake(BsDrop(payload, SigOff), SigSz)
                           ELSE Zeros(SigSz),
        fee            |-> IF ~opt_sig.null /\ U64Gt(opt_sig.val, U64(0))
                           THEN opt_sig.val ELSE U64(BaseFee) ]

\* a faulty fd_sequencer_tile_after_frag, for contrast: the lifetime counter
\* incremented for dropped entries too
AfterFragCountsDrops(t, opt_sig, now) ==
  IF t.frag_buf_sz = 0 THEN t
  ELSE LET r == fd_sequencer_txn_queue_push(t, StagedTxn(t, opt_sig, now))
       IN  [r.tile EXCEPT !.txn_count = @ + 1, !.frag_buf_sz = 0]

\* a faulty fd_sequencer_tile_after_frag, for contrast: the staged bytes
\* kept when the queue is full, to be pushed by a later completion
AfterFragKeepsStagedWhenFull(t, opt_sig, now) ==
  IF t.frag_buf_sz = 0 THEN t
  ELSE LET r == fd_sequencer_txn_queue_push(t, StagedTxn(t, opt_sig, now))
       IN  IF r.ret = 0 THEN r.tile
           ELSE [r.tile EXCEPT !.txn_count = @ + 1, !.frag_buf_sz = 0]

\* fd_sequencer_tile_after_frag
fd_sequencer_tile_after_frag(t, opt_sig, now) ==
  IF t.frag_buf_sz = 0 THEN t
  ELSE LET r == fd_sequencer_txn_queue_push(t, StagedTxn(t, opt_sig, now))
       IN  IF r.ret = 0 THEN [r.tile EXCEPT !.frag_buf_sz = 0]
           ELSE [r.tile EXCEPT !.txn_count = @ + 1, !.frag_buf_sz = 0]

\* a faulty ElapsedNs, for contrast: the clock monotonicity guard left out, so a negative
\* tick difference converts to a huge unsigned value
ElapsedNsUnguarded(t, now) ==
  LET elapsed_ticks == now - t.block_start_ticks
  IN  IF elapsed_ticks < 0 THEN 2^30 + elapsed_ticks ELSE elapsed_ticks

\* the elapsed time fd_sequencer_tile_during_housekeeping compares with the
\* block interval
ElapsedNs(t, now) ==
  LET elapsed_ticks == now - t.block_start_ticks
  IN  IF elapsed_ticks < 0 THEN 0 ELSE elapsed_ticks

\* the cap fd_sequencer_tile_during_housekeeping passes to the assembler
ClampMaxTxns(t) ==
  IF t.cfg.max_txns_per_block > StackTxnsMax THEN StackTxnsMax
  ELSE t.cfg.max_txns_per_block

\* the stack object hdr before fd_sequencer_build_block fills it: its
\* bytes are indeterminate; pad is what the padding bytes happen to hold
\* (every named field is written on both branches of the assembler)
StackHdr(pad) == [ZeroHdr EXCEPT !.pad = pad]

\* a faulty HashHdr, for contrast: the digest taken over the header up to the signature
HashHdrUnsigned(hdr) ==
  Sha256Fini(Sha256Append(Sha256Init, HdrBytes(hdr, OffsetOfSignature)))

\* the rolling parent hash: sha256 of the full block header
HashHdr(hdr) ==
  Sha256Fini(Sha256Append(Sha256Init, HdrBytes(hdr, SizeOfHdr)))

\* a faulty fd_sequencer_tile_during_housekeeping, for contrast: the interval skipped
\* when the queue holds nothing
HousekeepingSkipEmpty(t, now, wallclock, pad) ==
  IF ElapsedNs(t, now) < t.cfg.block_time_ns \/ t.tx_queue_cnt = 0
  THEN [produced |-> FALSE, tile |-> t]
  ELSE LET max_txns == ClampMaxTxns(t)
       IN  With(fd_sequencer_build_block(t, StackHdr(pad), max_txns, wallclock), LAMBDA b :
           With(fd_sequencer_advance_slot([b.tile EXCEPT !.parent_hash = HashHdr(b.hdr)]),
                LAMBDA a :
             [ produced  |-> TRUE,
               tile      |-> [a.tile EXCEPT !.block_start_ticks = now],
               hdr       |-> b.hdr,
               txns      |-> b.txns,
               max_txns  |-> max_txns,
               txn_cnt   |-> b.ret,
               new_epoch |-> a.ret ]))

\* a faulty fd_sequencer_tile_during_housekeeping, for contrast: the rolling
\* parent hash left as it was after an empty block
HousekeepingKeepParentOnEmpty(t, now, wallclock, pad) ==
  IF ElapsedNs(t, now) < t.cfg.block_time_ns
  THEN [produced |-> FALSE, tile |-> t]
  ELSE LET max_txns == ClampMaxTxns(t)
       IN  With(fd_sequencer_build_block(t, StackHdr(pad), max_txns, wallclock), LAMBDA b :
           With(fd_sequencer_advance_slot(
                  IF b.ret = 0 THEN b.tile
                  ELSE [b.tile EXCEPT !.parent_hash = HashHdr(b.hdr)]),
                LAMBDA a :
             [ produced  |-> TRUE,
               tile      |-> [a.tile EXCEPT !.block_start_ticks = now],
               hdr       |-> b.hdr,
               txns      |-> b.txns,
               max_txns  |-> max_txns,
               txn_cnt   |-> b.ret,
               new_epoch |-> a.ret ]))

\* a faulty fd_sequencer_tile_during_housekeeping, for contrast: the timer
\* advanced by one block interval instead of being reset to the tick read
HousekeepingFixedSchedule(t, now, wallclock, pad) ==
  IF ElapsedNs(t, now) < t.cfg.block_time_ns
  THEN [produced |-> FALSE, tile |-> t]
  ELSE LET max_txns == ClampMaxTxns(t)
       IN  With(fd_sequencer_build_block(t, StackHdr(pad), max_txns, wallclock), LAMBDA b :
           With(fd_sequencer_advance_slot([b.tile EXCEPT !.parent_hash = HashHdr(b.hdr)]),
                LAMBDA a :
             [ produced  |-> TRUE,
               tile      |-> [a.tile EXCEPT !.block_start_ticks =
                                              t.block_start_ticks + t.cfg.block_time_ns],
               hdr       |-> b.hdr,
               txns      |-> b.txns,
               max_txns  |-> max_txns,
               txn_cnt   |-> b.ret,
               new_epoch |-> a.ret ]))

\* fd_sequencer_tile_during_housekeeping: whether a block was produced,
\* and then the tile afterwards, the header, txns_out and the two values
\* returned by the assembler and by the slot advance
fd_sequencer_tile_during_housekeeping(t, now, wallclock, pad) ==
  IF ElapsedNs(t, now) < t.cfg.block_time_ns
  THEN [produced |-> FALSE, tile |-> t]
  ELSE LET max_txns == ClampMaxTxns(t)
       IN  With(fd_sequencer_build_block(t, StackHdr(pad), max_txns, wallclock), LAMBDA b :
           With(fd_sequencer_advance_slot([b.tile EXCEPT !.parent_hash = HashHdr(b.hdr)]),
                LAMBDA a :
             [ produced  |-> TRUE,
               tile      |-> [a.tile EXCEPT !.block_start_ticks = now],
               hdr       |-> b.hdr,
               txns      |-> b.txns,
               max_txns  |-> max_txns,
               txn_cnt   |-> b.ret,
               new_epoch |-> a.ret ]))

\* fd_sequencer_tile_metrics_write
fd_sequencer_tile_metrics_write(t, now) == [t EXCEPT !.last_metrics_ticks = now]

\* a faulty shutdown, for contrast: only the first half of the key storage
\* is cleared
FiniClearsHalf(t) ==
  [t EXCEPT !.sequencer_privkey = Memcpy(t.sequencer_privkey, Zeros(HashSz), HashSz)]

\* fd_sequencer_tile_fini
fd_sequencer_tile_fini(t) == [t EXCEPT !.sequencer_privkey = Zeros(PrivKeySz)]

(***************************************************************************)
(* What the callers supply, drawn from small sets.                         *)
(***************************************************************************)
\* fd_sequencer_cfg_t values the tile is run with (block_time_ns in ticks)
Cfgs == { [block_time_ns |-> 2, max_txns_per_block |-> 1,     epoch_length_slots |-> 1],
          [block_time_ns |-> 2, max_txns_per_block |-> 2,     epoch_length_slots |-> 2],
          [block_time_ns |-> 3, max_txns_per_block |-> 10001, epoch_length_slots |-> 2] }

\* the signer's key pair, provisioned into the tile by its owner
KeyPair == [pub |-> BsFill(7, HashSz), priv |-> BsFill(9, PrivKeySz)]

\* the memory a chunk argument points to: a one-byte signature count, then
\* bytes b
Chunk(b) == BsCat(BsFill(1, 1), BsFill(b, FD_SEQUENCER_TXN_MTU))
FillBytes == {2}
FragSizes == {0, 65, 1233}

\* the opt_sig argument: a null pointer, or a pointer to a ulong
OptSig(is_null, val) == [null |-> is_null, val |-> val]
OptSigs == { OptSig(TRUE, U64(0)), OptSig(FALSE, U64Max) }

\* values fd_log_wallclock() returns
WallClocks == {1700}

\* what the padding bytes of an uninitialised stack header can hold
PadValues == { Zeros(4), BsFill(170, 4) }

\* values fd_tickcount() returns: to housekeeping, and at a fragment's arrival
Ticks == 0..MaxTick
ArrivalTicks == {0, MaxTick}

NoHdr == [none |-> TRUE]

(***************************************************************************)
(* The tile driven by its callbacks.  Every read of the tick counter       *)
(* returns any value of Ticks, lower than an earlier read included.        *)
(***************************************************************************)
Init ==
  /\ clock = 0
  /\ \E c \in Cfgs :
       tile = [InitTile(clock, QueueCap) EXCEPT !.cfg = c,
                                                !.sequencer_identity = KeyPair.pub,
                                                !.sequencer_privkey  = KeyPair.priv]
  /\ phase = "running"
  /\ chain = [n |-> 0, tip |-> NoHdr, txn_total |-> 0]
  /\ last = [op |-> "init"]

DuringFrag ==
  /\ phase = "running"
  /\ \E b \in FillBytes, sz \in FragSizes :
       /\ tile' = fd_sequencer_tile_during_frag(tile, Chunk(b), sz)
       /\ last' = [op |-> "during_frag", sz |-> sz]
  /\ UNCHANGED <<clock, phase, chain>>

AfterFragAt(now) ==
  /\ phase = "running"
  /\ \E opt_sig \in OptSigs :
       /\ tile' = fd_sequencer_tile_after_frag(tile, opt_sig, now)
       /\ last' = [op |-> "after_frag", opt_sig |-> opt_sig]
  /\ UNCHANGED <<clock, phase, chain>>

HousekeepingAt(now) ==
  /\ phase = "running"
  /\ \E wallclock \in WallClocks, pad \in PadValues :
       \E r \in {fd_sequencer_tile_during_housekeeping(tile, now, wallclock, pad)} :
           /\ tile' = r.tile
           /\ IF r.produced
              THEN /\ chain' = [n |-> chain.n + 1, tip |-> r.hdr,
                               txn_total |-> chain.txn_total + r.hdr.txn_count]
                   /\ last' = [op |-> "housekeeping", now |-> now, produced |-> TRUE,
                               hdr |-> r.hdr, txns |-> r.txns,
                               max_txns |-> r.max_txns, txn_cnt |-> r.txn_cnt,
                               new_epoch |-> r.new_epoch, wallclock |-> wallclock]
              ELSE /\ UNCHANGED chain
                   /\ last' = [op |-> "housekeeping", now |-> now, produced |-> FALSE]
  /\ UNCHANGED <<clock, phase>>

AfterFrag == \E now \in ArrivalTicks : AfterFragAt(now)

Housekeeping == \E now \in Ticks : HousekeepingAt(now)

Fini ==
  /\ phase = "running"
  /\ tile' = fd_sequencer_tile_fini(tile)
  /\ phase' = "finished"
  /\ last' = [op |-> "fini"]
  /\ UNCHANGED <<clock, chain>>

Next ==
  \/ DuringFrag
  \/ AfterFrag
  \/ Housekeeping
  \/ Fini

Spec == Init /\ [][Next]_vars

(***************************************************************************)
(* The core driven directly: fd_sequencer.h is stand-alone from the tile   *)
(* wiring: a caller pushes and pops in any order, then builds a block, on   *)
(* which the run ends.                                                     *)
(***************************************************************************)
\* entries a caller pushes: staged from a 65-byte fragment or a 64-byte one
\* (too short to carry a signature), with each priority hint
CoreTxns ==
  { StagedTxn([frag_buf    |-> Memcpy(Zeros(FD_SEQUENCER_TXN_MTU), Chunk(2), sz),
               frag_buf_sz |-> sz], o, 0) :
      sz \in {64, 65},
      o \in { OptSig(TRUE, U64(0)), OptSig(FALSE, U64(1)), OptSig(FALSE, U64Max) } }

InitCore ==
  /\ clock = 0
  /\ tile = [InitTile(clock, HeapCap) EXCEPT !.cfg = CHOOSE c \in Cfgs : TRUE,
                                             !.sequencer_identity = KeyPair.pub,
                                             !.sequencer_privkey  = KeyPair.priv]
  /\ phase = "running"
  /\ chain = [n |-> 0, tip |-> NoHdr, txn_total |-> 0]
  /\ last = [op |-> "init"]

QueuePush ==
  /\ chain.n = 0
  /\ \E txn \in CoreTxns :
       LET r == fd_sequencer_txn_queue_push(tile, txn)
       IN  /\ tile' = r.tile
           /\ last' = [op |-> "push", txn |-> txn, ret |-> r.ret]
  /\ UNCHANGED <<clock, phase, chain>>

QueuePop ==
  /\ chain.n = 0
  /\ LET r == fd_sequencer_txn_queue_pop(tile, NULL)
     IN  /\ tile' = r.tile
         /\ last' = [op |-> "pop", ret |-> r.ret, out |-> r.out]
  /\ UNCHANGED <<clock, phase, chain>>

BuildBlock ==
  /\ chain.n = 0
  /\ \E max_txns \in 0..HeapCap, wallclock \in WallClocks, pad \in PadValues :
       LET r == fd_sequencer_build_block(tile, StackHdr(pad), max_txns, wallclock)
       IN  /\ tile' = r.tile
           /\ chain' = [n |-> chain.n + 1, tip |-> r.hdr,
                               txn_total |-> chain.txn_total + r.hdr.txn_count]
           /\ last' = [op |-> "build_block", max_txns |-> max_txns, ret |-> r.ret,
                       hdr |-> r.hdr, txns |-> r.txns, wallclock |-> wallclock]
  /\ UNCHANGED <<clock, phase>>

NextCore ==
  \/ QueuePush
  \/ QueuePop
  \/ BuildBlock

SpecCore == InitCore /\ [][NextCore]_vars

(***************************************************************************)
(* C1.  After any sequence of pushes and pops from the empty queue, failed *)
(* calls included: every stored element at index i > 0 has a fee no        *)
(* larger than the fee of its parent at index (i-1)/2, the count never     *)
(* exceeds the capacity, and peek returns a stored element whose fee is    *)
(* the maximum of all stored fees (NULL when the queue is empty).          *)
(***************************************************************************)
C1_HeapInvariant ==
  LET q    == tile.tx_queue
      cnt  == tile.tx_queue_cnt
      peek == fd_sequencer_txn_queue_peek(tile)
  IN  /\ cnt = Len(q)
      /\ cnt <= tile.tx_queue_cap
      /\ \A i \in 1..(cnt - 1) : ~U64Lt(q[((i - 1) \div 2) + 1].fee, q[i + 1].fee)
      /\ IF cnt = 0 THEN peek = NULL
         ELSE /\ \E i \in 1..cnt : q[i] = peek
              /\ \A i \in 1..cnt : ~U64Lt(peek.fee, q[i].fee)

\* a pop has just left three entries of three different fees, the queue
\* having been full
C1_Witness ==
  /\ last.op = "pop" /\ last.ret = 1
  /\ tile.tx_queue_cnt = 3
  /\ Cardinality({ tile.tx_queue[i].fee : i \in 1..3 } \cup {last.out.fee}) >= 3


(***************************************************************************)
(* C2.  A housekeeping call that reads the tick value now produces exactly *)
(* one block when max(0, now - block_start_ticks) >= cfg.block_time_ns,    *)
(* however many whole intervals have gone by: slot and block count go up   *)
(* by exactly 1 and one header is emitted.  Otherwise it produces nothing  *)
(* and the whole tile (slot, epoch, block count, parent hash, fee total,   *)
(* queue, staging buffer, block-start timestamp) is as before.             *)
(***************************************************************************)
C2_OneBlockOrNothing ==
  [][ last'.op = "housekeeping" =>
        LET now == last'.now
            due == Max(0, now - tile.block_start_ticks) >= tile.cfg.block_time_ns
        IN  IF due
            THEN /\ last'.produced
                 /\ chain'.n = chain.n + 1
                 /\ tile'.current_slot = tile.current_slot + 1
                 /\ tile'.block_count = tile.block_count + 1
                 /\ tile'.block_start_ticks = now
            ELSE /\ ~last'.produced
                 /\ chain' = chain
                 /\ tile' = tile ]_vars

\* a block produced by a call that found two whole intervals gone by
C2_Witness ==
  /\ last.op = "housekeeping"
  /\ last.produced
  /\ last.now >= 2 * tile.cfg.block_time_ns
  /\ chain.n = 1
  /\ tile.current_slot = 1
  /\ tile.block_count = 1

(***************************************************************************)
(* C4.  Block assembly on a queue of c entries with cap m removes exactly  *)
(* n = min(m, c) entries, they are the n highest-fee entries (every fee    *)
(* taken >= every fee left, and taken plus left is what the queue held),   *)
(* they come out in non-increasing fee order and the count afterwards is   *)
(* c - n; from housekeeping m = min(cfg.max_txns_per_block, 10000).        *)
(***************************************************************************)
\* how many elements of the sequence s equal e
Count(s, e) == Cardinality({ i \in 1..Len(s) : s[i] = e })

C4_DrainHighestFees ==
  [][ (last'.op = "housekeeping" /\ last'.produced) =>
        LET m    == Min(tile.cfg.max_txns_per_block, 10000)
            c    == tile.tx_queue_cnt
            n    == Min(m, c)
            out  == last'.txns
            left == tile'.tx_queue
        IN  /\ last'.max_txns = m
            /\ last'.txn_cnt = n
            /\ Len(out) = n
            /\ tile'.tx_queue_cnt = c - n
            /\ Len(left) = c - n
            /\ \A i \in 1..(n - 1) : ~U64Lt(out[i].fee, out[i + 1].fee)
            /\ \A i \in 1..n : \A k \in 1..(c - n) : ~U64Lt(out[i].fee, left[k].fee)
            /\ \A i \in 1..c :
                 LET e == tile.tx_queue[i]
                 IN  Count(tile.tx_queue, e) = Count(out, e) + Count(left, e) ]_vars

\* the cap cut the drain short: of two entries with different fees the
\* higher one was taken and the lower one left
C4_Witness ==
  /\ last.op = "housekeeping"
  /\ last.produced
  /\ last.max_txns = 1
  /\ last.txn_cnt = 1
  /\ tile.tx_queue_cnt = 1
  /\ U64Lt(tile.tx_queue[1].fee, last.txns[1].fee)

(***************************************************************************)
(* C5.  Every header produced by block assembly, whatever the number of    *)
(* transactions drained (zero included), carries in its signature field    *)
(* the signature, under the sequencer's key pair, of exactly the fields    *)
(* that precede the signature: slot, parent commitment, content            *)
(* commitment, timestamp, signer public key, transaction count.            *)
(***************************************************************************)
\* the header fields that precede the signature, in field order
PreSignatureFields(hdr) ==
  << <<"slot", hdr.slot>>, <<"parent_hash", hdr.parent_hash>>,
     <<"merkle_root", hdr.merkle_root>>, <<"timestamp", hdr.timestamp>>,
     <<"sequencer_pubkey", hdr.sequencer_pubkey>>, <<"txn_count", hdr.txn_count>> >>

\* verification of the header's signature against the signer public key it
\* names, over the pre-signature fields, by a holder of the public key only
VerifiesHdr(hdr) ==
  /\ ~hdr.signature.zero
  /\ hdr.signature.msg = PreSignatureFields(hdr)
  /\ hdr.signature.pub = hdr.sequencer_pubkey

C5_EveryHeaderSigned ==
  (last.op = "housekeeping" /\ last.produced) =>
     /\ VerifiesHdr(last.hdr)
     /\ last.hdr.signature.priv = tile.sequencer_privkey
     /\ last.hdr.sequencer_pubkey = tile.sequencer_identity

\* an empty block was produced and its signature field is all zero
C5_UnsignedEmptyHeader ==
  /\ last.op = "housekeeping"
  /\ last.produced
  /\ last.txn_cnt = 0
  /\ last.hdr.signature = ZeroSig

\* what does hold: every header of a block with at least one transaction is
\* signed over the pre-signature fields
C5_NonEmptyHeaderSigned ==
  (last.op = "housekeeping" /\ last.produced /\ last.txn_cnt >= 1) =>
     /\ VerifiesHdr(last.hdr)
     /\ last.hdr.signature.priv = tile.sequencer_privkey
     /\ last.hdr.sequencer_pubkey = tile.sequencer_identity

(***************************************************************************)
(* C6.  The produced headers form a hash chain: the first header after     *)
(* initialization has an all-zero parent commitment, and every later       *)
(* header (of an empty block or not) has as parent commitment the hash of  *)
(* the complete previous header as it was produced: all its fields, the    *)
(* signature included, and the bytes that pad the structure.               *)
(***************************************************************************)
\* the complete header, field by field
AllFields(hdr) ==
  PreSignatureFields(hdr) \o << <<"signature", hdr.signature>>, <<"pad", hdr.pad>> >>

C6_HashChain ==
  [][ (last'.op = "housekeeping" /\ last'.produced) =>
        /\ chain'.tip = last'.hdr
        /\ last'.hdr.parent_hash =
             IF chain.n = 0 THEN Zero32
             ELSE [zero |-> FALSE, digest_of |-> AllFields(chain.tip)] ]_vars

\* a second block, chained to a first one
C6_Witness ==
  /\ last.op = "housekeeping"
  /\ last.produced
  /\ chain.n = 2
  /\ ~last.hdr.parent_hash.zero

(***************************************************************************)
(* C7.  Every call of fd_sequencer_advance_slot (one per produced block)   *)
(* increases current_slot by exactly 1, and increases current_epoch by     *)
(* exactly 1 if and only if the new slot is a nonzero multiple of          *)
(* cfg.epoch_length_slots; otherwise current_epoch is unchanged.  The      *)
(* value returned tells which.                                             *)
(***************************************************************************)
C7_AdvanceSlot ==
  [][ (last'.op = "housekeeping" /\ last'.produced) =>
        LET new      == tile.current_slot + 1
            boundary == new # 0 /\ \E k \in 1..new : new = k * tile.cfg.epoch_length_slots
        IN  /\ tile'.current_slot = new
            /\ tile'.current_epoch = tile.current_epoch + (IF boundary THEN 1 ELSE 0)
            /\ last'.new_epoch = (IF boundary THEN 1 ELSE 0) ]_vars

\* the epoch went up at slot 2 of a configuration with 2 slots per epoch,
\* and not at slot 1
C7_Witness ==
  /\ last.op = "housekeeping"
  /\ last.produced
  /\ tile.cfg.epoch_length_slots = 2
  /\ tile.current_slot = 2
  /\ tile.current_epoch = 1
  /\ last.new_epoch = 1

(***************************************************************************)
(* C8.  Slots are assigned one per produced block, with no gap and no      *)
(* repeat: the k-th header produced after initialization carries slot      *)
(* k - 1, the sequencer's current slot at assembly time before it is       *)
(* advanced, so successive headers' slots go up by exactly 1.              *)
(***************************************************************************)
C8_SlotPerBlock ==
  [][ (last'.op = "housekeeping" /\ last'.produced) =>
        /\ chain'.n = chain.n + 1
        /\ last'.hdr.slot = chain'.n - 1
        /\ last'.hdr.slot = tile.current_slot
        /\ (chain.n >= 1 => last'.hdr.slot = chain.tip.slot + 1) ]_vars

\* the second header, carrying slot 1
C8_Witness ==
  /\ last.op = "housekeeping"
  /\ last.produced
  /\ chain.n = 2
  /\ last.hdr.slot = 1
  /\ tile.current_slot = 2

(***************************************************************************)
(* C9.  Every header produced by block assembly, of a block with or        *)
(* without transactions, has slot = the current sequencer slot, parent     *)
(* commitment = the current rolling parent hash, timestamp = the           *)
(* wall-clock time read during that assembly, signer identity = the        *)
(* configured public key, transaction count = the number drained.          *)
(***************************************************************************)
C9_HeaderFields ==
  [][ (last'.op = "housekeeping" /\ last'.produced) =>
        /\ last'.hdr.slot = tile.current_slot
        /\ last'.hdr.parent_hash = tile.parent_hash
        /\ last'.hdr.timestamp = last'.wallclock
        /\ last'.hdr.sequencer_pubkey = tile.sequencer_identity
        /\ last'.hdr.txn_count = Len(last'.txns) ]_vars

\* an empty block was produced and its timestamp is 0, not the wall clock
C9_EmptyHeaderNoTimestamp ==
  /\ last.op = "housekeeping"
  /\ last.produced
  /\ last.txn_cnt = 0
  /\ last.hdr.timestamp = 0
  /\ last.wallclock # 0

\* what does hold: slot, parent commitment, signer identity and transaction
\* count are populated in every header, the timestamp in those of blocks
\* with at least one transaction
C9_HeaderFieldsButEmptyTimestamp ==
  [][ (last'.op = "housekeeping" /\ last'.produced) =>
        /\ last'.hdr.slot = tile.current_slot
        /\ last'.hdr.parent_hash = tile.parent_hash
        /\ (last'.txn_cnt >= 1 => last'.hdr.timestamp = last'.wallclock)
        /\ last'.hdr.sequencer_pubkey = tile.sequencer_identity
        /\ last'.hdr.txn_count = Len(last'.txns) ]_vars

(***************************************************************************)
(* C10.  For every block of n >= 1 drained transactions the header's       *)
(* content commitment is the hash of sig_0 || sig_1 || ... || sig_{n-1},   *)
(* the identity signatures of the drained transactions in drain order,     *)
(* and of nothing else: the same ordered signature list gives the same     *)
(* commitment whatever the payloads, fees and sequencer state.             *)
(***************************************************************************)
\* sig_0 || ... || sig_{n-1} of the entries of txns
RECURSIVE ConcatSigs(_)
ConcatSigs(txns) ==
  IF txns = <<>> THEN <<>>
  ELSE BsCat(ConcatSigs(SubSeq(txns, 1, Len(txns) - 1)), txns[Len(txns)].sig)

C10_MerkleOfSigs ==
  (last.op = "build_block" /\ last.ret >= 1) =>
     /\ Len(last.txns) = last.ret
     /\ last.hdr.merkle_root = [zero |-> FALSE, digest_of |-> ConcatSigs(last.txns)]

\* a block of two or more transactions whose first two signatures differ,
\* so that their order shows in the commitment
C10_Witness ==
  /\ last.op = "build_block"
  /\ last.ret >= 2
  /\ last.txns[1].sig # last.txns[2].sig
  /\ last.txns[1].fee # last.txns[2].fee

(***************************************************************************)
(* The tile under a clock that only moves forward and a scheduler that     *)
(* keeps calling housekeeping: every callback reads the current tick.      *)
(* Ingestion callbacks come in any order and any number, or never.         *)
(***************************************************************************)
ClockAdvance ==
  /\ phase = "running"
  /\ clock < MaxTick
  /\ clock' = clock + 1
  /\ UNCHANGED <<tile, phase, chain, last>>

AfterFragNow == AfterFragAt(clock)

HousekeepingNow == HousekeepingAt(clock)

NextLive ==
  \/ ClockAdvance
  \/ DuringFrag
  \/ AfterFragNow
  \/ HousekeepingNow

InitLive ==
  /\ clock = 0
  /\ \E c \in Cfgs :
       tile = [InitTile(clock, LiveCap) EXCEPT !.cfg = c,
                                              !.sequencer_identity = KeyPair.pub,
                                              !.sequencer_privkey  = KeyPair.priv]
  /\ phase = "running"
  /\ chain = [n |-> 0, tip |-> NoHdr, txn_total |-> 0]
  /\ last = [op |-> "init"]

LiveSpec ==
  /\ InitLive
  /\ [][NextLive]_vars
  /\ WF_vars(ClockAdvance)
  /\ WF_vars(HousekeepingNow)

(***************************************************************************)
(* C3.  The cadence never stalls: with housekeeping called again and again *)
(* and the clock it reads moving forward, after every block (and after     *)
(* initialization) another block is eventually produced, whatever the      *)
(* queue holds, a queue that stays empty included, and however ingestion   *)
(* is interleaved.  Within the clock's range: whenever the next block      *)
(* falls due at a tick the clock reaches, the tile eventually leaves that  *)
(* due time behind, and the due time moves only by a block being produced. *)
(***************************************************************************)
\* the next block falls due at a tick the clock reaches
NextBlockDue == tile.block_start_ticks + tile.cfg.block_time_ns <= MaxTick

C3_NeverStalls ==
  /\ [][ tile'.block_start_ticks # tile.block_start_ticks =>
            /\ chain'.n = chain.n + 1
            /\ tile'.block_start_ticks > tile.block_start_ticks ]_vars
  /\ NextBlockDue ~> ~NextBlockDue

\* a second block produced by a tile that never accepted a transaction
C3_Witness ==
  /\ last.op = "housekeeping"
  /\ last.produced
  /\ chain.n = 2
  /\ tile.txn_count = 0
  /\ last.txn_cnt = 0
  /\ clock = MaxTick

(***************************************************************************)
(* C11.  After any sequence of block productions the cumulative fee total  *)
(* equals the sum of the fees of all transactions drained into blocks      *)
(* since initialization, for fees over all 64-bit unsigned values: each    *)
(* producing call adds the sum of the fees it drained, and no other        *)
(* operation (ingestion, failed push, housekeeping without production,     *)
(* empty block, shutdown) changes the fee total.                           *)
(***************************************************************************)
\* natural numbers beyond 2^64: five 16-bit limbs, most significant first
WideOf(x) == <<0>> \o x

\* x + y, exact
WideAdd(x, y) ==
  LET s5 == x[5] + y[5]
      s4 == x[4] + y[4] + (s5 \div Limb)
      s3 == x[3] + y[3] + (s4 \div Limb)
      s2 == x[2] + y[2] + (s3 \div Limb)
      s1 == x[1] + y[1] + (s2 \div Limb)
  IN  <<s1, s2 % Limb, s3 % Limb, s4 % Limb, s5 % Limb>>

\* the exact sum of the fees of the entries of txns
RECURSIVE SumFees(_)
SumFees(txns) ==
  IF txns = <<>> THEN WideOf(U64(0))
  ELSE WideAdd(WideOf(Head(txns).fee), SumFees(Tail(txns)))

C11_FeeTotalIsSum ==
  [][ IF last'.op = "housekeeping" /\ last'.produced
      THEN WideOf(tile'.fee_total) = WideAdd(WideOf(tile.fee_total), SumFees(last'.txns))
      ELSE tile'.fee_total = tile.fee_total ]_vars

\* a block was produced and the fee total is below a fee drained into it
C11_FeeTotalWrapped ==
  /\ last.op = "housekeeping"
  /\ last.produced
  /\ \E i \in 1..Len(last.txns) : U64Lt(tile.fee_total, last.txns[i].fee)

\* what does hold: the fee total is that sum modulo 2^64
C11_FeeTotalIsSumMod64 ==
  [][ IF last'.op = "housekeeping" /\ last'.produced
      THEN LET s == WideAdd(WideOf(tile.fee_total), SumFees(last'.txns))
           IN  tile'.fee_total = <<s[2], s[3], s[4], s[5]>>
      ELSE tile'.fee_total = tile.fee_total ]_vars

(***************************************************************************)
(* C12.  When the block interval has elapsed and the queue is empty,       *)
(* housekeeping still produces a block: the header has transaction count   *)
(* 0, slot and block count go up by exactly 1, the rolling parent hash     *)
(* becomes the hash of that empty header, the block-start timestamp is     *)
(* reset to the tick read, and the fee total and the queue are unchanged.  *)
(***************************************************************************)
C12_EmptyBlockProduced ==
  [][ ( /\ last'.op = "housekeeping"
        /\ tile.tx_queue_cnt = 0
        /\ Max(0, last'.now - tile.block_start_ticks) >= tile.cfg.block_time_ns ) =>
        /\ last'.produced
        /\ chain'.n = chain.n + 1
        /\ last'.hdr.txn_count = 0
        /\ last'.txn_cnt = 0
        /\ last'.txns = <<>>
        /\ tile'.current_slot = tile.current_slot + 1
        /\ tile'.block_count = tile.block_count + 1
        /\ tile'.parent_hash = [zero |-> FALSE, digest_of |-> AllFields(last'.hdr)]
        /\ tile'.block_start_ticks = last'.now
        /\ tile'.fee_total = tile.fee_total
        /\ tile'.tx_queue = tile.tx_queue
        /\ tile'.tx_queue_cnt = 0 ]_vars

\* an empty block produced after a block that drained a transaction
C12_Witness ==
  /\ last.op = "housekeeping"
  /\ last.produced
  /\ last.txn_cnt = 0
  /\ tile.tx_queue_cnt = 0
  /\ tile.block_count = 2
  /\ tile.txn_count >= 1
  /\ tile.fee_total # U64(0)

(***************************************************************************)
(* C13.  A push onto a queue whose count equals its capacity returns       *)
(* failure and leaves the count and every stored entry unchanged; a pop on *)
(* a queue with count 0 returns failure, writes nothing and leaves the     *)
(* queue unchanged.                                                        *)
(***************************************************************************)
C13_FullAndEmptyFail ==
  [][ /\ (last'.op = "push" /\ tile.tx_queue_cnt = tile.tx_queue_cap) =>
            /\ last'.ret = 0
            /\ tile'.tx_queue_cnt = tile.tx_queue_cap
            /\ tile'.tx_queue = tile.tx_queue
            /\ tile' = tile
      /\ (last'.op = "pop" /\ tile.tx_queue_cnt = 0) =>
            /\ last'.ret = 0
            /\ last'.out = NULL
            /\ tile'.tx_queue_cnt = 0
            /\ tile'.tx_queue = <<>>
            /\ tile' = tile ]_vars

\* a push that failed on a full queue although its fee is above every fee
\* stored
C13_Witness ==
  /\ last.op = "push"
  /\ last.ret = 0
  /\ tile.tx_queue_cnt = tile.tx_queue_cap
  /\ U64Gt(last.txn.fee, tile.tx_queue[1].fee)

(***************************************************************************)
(* Ingestion on its own: fragments of a logical unit are delivered by      *)
(* during_frag and the unit is completed by after_frag, in any order and   *)
(* number.  last.unit keeps the fragments delivered since the last         *)
(* completion, for the properties to speak of.                             *)
(***************************************************************************)
FragFill  == {2, 3}
FragUnitSizes == {0, 1, 65, 1233}
FragOptSigs ==
  { OptSig(TRUE, U64(0)), OptSig(FALSE, U64(0)), OptSig(FALSE, U64(1)),
    OptSig(FALSE, U64Max) }

\* the fragments delivered since the last completion
UnitOf(l) == IF l.op = "during_frag" THEN l.unit ELSE <<>>

InitFrag ==
  /\ clock = 0
  /\ tile = [InitTile(clock, FragCap) EXCEPT !.sequencer_identity = KeyPair.pub,
                                             !.sequencer_privkey  = KeyPair.priv]
  /\ phase = "running"
  /\ chain = [n |-> 0, tip |-> NoHdr, txn_total |-> 0]
  /\ last = [op |-> "init"]

FragDeliver ==
  /\ Len(UnitOf(last)) < MaxFrags
  /\ \E b \in FragFill, sz \in FragUnitSizes :
       /\ tile' = fd_sequencer_tile_during_frag(tile, Chunk(b), sz)
       /\ last' = [op |-> "during_frag", sz |-> sz,
                   unit |-> Append(UnitOf(last), [b |-> b, sz |-> sz])]
  /\ UNCHANGED <<clock, phase, chain>>

FragComplete ==
  /\ \E opt_sig \in FragOptSigs :
       /\ tile' = fd_sequencer_tile_after_frag(tile, opt_sig, clock)
       /\ last' = [op |-> "after_frag", opt_sig |-> opt_sig, unit |-> UnitOf(last)]
  /\ UNCHANGED <<clock, phase, chain>>

NextFrag ==
  \/ FragDeliver
  \/ FragComplete

SpecFrag == InitFrag /\ [][NextFrag]_vars

(***************************************************************************)
(* C14.  A transaction is reassembled from all fragments of its logical    *)
(* unit: when fragments f_1, ..., f_k, each no larger than the maximum     *)
(* transaction size, are delivered before the unit is completed, each      *)
(* delivery appends to the staging buffer, and the payload of the entry    *)
(* enqueued is f_1 || ... || f_k, its length the sum of the fragment       *)
(* sizes (a sum within the maximum transaction size).                      *)
(***************************************************************************)
\* the bytes of a delivered fragment
FragBytes(f) == BsTake(Chunk(f.b), f.sz)

\* f_1 || ... || f_k and the sum of the sizes, for the fragments of unit u
RECURSIVE ConcatFrags(_)
ConcatFrags(u) ==
  IF u = <<>> THEN <<>> ELSE BsCat(FragBytes(Head(u)), ConcatFrags(Tail(u)))

RECURSIVE UnitSize(_)
UnitSize(u) == IF u = <<>> THEN 0 ELSE Head(u).sz + UnitSize(Tail(u))

\* every fragment and the whole unit within the maximum transaction size,
\* and the unit not empty
UnitWellFormed(u) ==
  /\ \A i \in 1..Len(u) : u[i].sz <= FD_SEQUENCER_TXN_MTU
  /\ UnitSize(u) <= FD_SEQUENCER_TXN_MTU
  /\ UnitSize(u) > 0

C14_Reassembly ==
  [][ /\ (last'.op = "during_frag" /\ UnitWellFormed(last'.unit)) =>
            /\ tile'.frag_buf_sz = UnitSize(last'.unit)
            /\ BsTake(tile'.frag_buf, UnitSize(last'.unit)) = ConcatFrags(last'.unit)
      /\ ( /\ last'.op = "after_frag"
           /\ UnitWellFormed(last'.unit)
           /\ tile.tx_queue_cnt < tile.tx_queue_cap ) =>
            \E i \in 1..Len(tile'.tx_queue) :
               LET e == tile'.tx_queue[i]
               IN  /\ e.payload_sz = UnitSize(last'.unit)
                   /\ BsTake(e.payload, UnitSize(last'.unit)) = ConcatFrags(last'.unit)
                   /\ Count(tile'.tx_queue, e) = Count(tile.tx_queue, e) + 1 ]_vars

\* a unit of a 65-byte and then a 1-byte fragment was completed and the
\* entry enqueued holds 1 byte
C14_SecondFragmentOverwrote ==
  /\ last.op = "after_frag"
  /\ Len(last.unit) = 2
  /\ last.unit[1].sz = 65
  /\ last.unit[2].sz = 1
  /\ tile.tx_queue_cnt = 1
  /\ tile.tx_queue[1].payload_sz = 1
  /\ tile.tx_queue[1].payload = BsCat(BsFill(1, 1), Zeros(FD_SEQUENCER_TXN_MTU - 1))

\* what does hold: the entry enqueued is the last fragment delivered, alone
C14_LastFragmentOnly ==
  [][ ( /\ last'.op = "after_frag"
        /\ last'.unit # <<>>
        /\ tile.tx_queue_cnt < tile.tx_queue_cap ) =>
        LET f == last'.unit[Len(last'.unit)]
        IN  IF f.sz = 0 \/ f.sz > FD_SEQUENCER_TXN_MTU
            THEN tile'.tx_queue = tile.tx_queue
            ELSE \E i \in 1..Len(tile'.tx_queue) :
                   LET e == tile'.tx_queue[i]
                   IN  /\ e.payload_sz = f.sz
                       /\ e.payload = BsCat(FragBytes(f), Zeros(FD_SEQUENCER_TXN_MTU - f.sz))
                       /\ Count(tile'.tx_queue, e) = Count(tile.tx_queue, e) + 1 ]_vars

(***************************************************************************)
(* C15.  Delivering a fragment larger than the maximum transaction size    *)
(* (1232) discards the staging buffer: the staged size becomes 0 whatever  *)
(* was staged before; and the after_frag completion that follows pushes no *)
(* entry to the queue and leaves the lifetime transaction counter as it    *)
(* was.                                                                    *)
(***************************************************************************)
C15_OversizedDiscarded ==
  [][ /\ (last'.op = "during_frag" /\ last'.sz > 1232) =>
            /\ tile'.frag_buf_sz = 0
            /\ tile' = [tile EXCEPT !.frag_buf_sz = 0]
      /\ (last.op = "during_frag" /\ last.sz > 1232 /\ last'.op = "after_frag") =>
            /\ tile'.tx_queue = tile.tx_queue
            /\ tile'.tx_queue_cnt = tile.tx_queue_cnt
            /\ tile'.txn_count = tile.txn_count
            /\ tile' = tile ]_vars

\* a unit of a 65-byte fragment and then an oversized one was completed,
\* with room in the queue, and nothing was enqueued
C15_Witness ==
  /\ last.op = "after_frag"
  /\ Len(last.unit) = 2
  /\ last.unit[1].sz = 65
  /\ last.unit[2].sz > 1232
  /\ tile.tx_queue_cnt = 0
  /\ tile.txn_count = 0
  /\ tile.frag_buf_sz = 0

(***************************************************************************)
(* C16.  The priority score of an enqueued entry equals the externally     *)
(* supplied priority hint whenever a hint accompanies the fragment, for    *)
(* every hint value, and the base value (5000) only when no hint           *)
(* accompanies it.                                                         *)
(***************************************************************************)
C16_FeeIsHint ==
  [][ (last'.op = "after_frag" /\ tile'.txn_count = tile.txn_count + 1) =>
        \E i \in 1..Len(tile'.tx_queue) :
           LET e == tile'.tx_queue[i]
           IN  /\ Count(tile'.tx_queue, e) = Count(tile.tx_queue, e) + 1
               /\ e.fee = IF last'.opt_sig.null THEN <<0, 0, 0, 5000>>
                          ELSE last'.opt_sig.val ]_vars

\* an entry that came with the hint 0 was enqueued with the score 5000
C16_ZeroHintGetsBase ==
  /\ last.op = "after_frag"
  /\ ~last.opt_sig.null
  /\ last.opt_sig.val = <<0, 0, 0, 0>>
  /\ tile.txn_count = 1
  /\ tile.tx_queue_cnt = 1
  /\ tile.tx_queue[1].fee = <<0, 0, 0, 5000>>

\* what does hold: the score is the hint when one is supplied and is not 0,
\* and 5000 otherwise
C16_FeeIsNonzeroHintOrBase ==
  [][ (last'.op = "after_frag" /\ tile'.txn_count = tile.txn_count + 1) =>
        \E i \in 1..Len(tile'.tx_queue) :
           LET e == tile'.tx_queue[i]
           IN  /\ Count(tile'.tx_queue, e) = Count(tile.tx_queue, e) + 1
               /\ e.fee = IF last'.opt_sig.null \/ last'.opt_sig.val = <<0, 0, 0, 0>>
                          THEN <<0, 0, 0, 5000>>
                          ELSE last'.opt_sig.val ]_vars

(***************************************************************************)
(* C17.  The lifetime transaction counter goes up by exactly 1 on every    *)
(* after_frag completion that enqueues an entry and is unchanged           *)
(* otherwise.  When the queue is full at completion the entry is dropped:  *)
(* the queue (contents and count), the counter and all block-production    *)
(* state are unchanged, the staging buffer is cleared, and the entry is    *)
(* not enqueued by a later completion either.                              *)
(***************************************************************************)
C17_CounterAndDrop ==
  [][ /\ IF /\ last'.op = "after_frag"
            /\ tile.frag_buf_sz > 0
            /\ tile.tx_queue_cnt < tile.tx_queue_cap
         THEN /\ tile'.txn_count = tile.txn_count + 1
              /\ tile'.tx_queue_cnt = tile.tx_queue_cnt + 1
              /\ tile'.frag_buf_sz = 0
         ELSE /\ tile'.txn_count = tile.txn_count
              /\ tile'.tx_queue = tile.tx_queue
      /\ ( /\ last'.op = "after_frag"
           /\ tile.frag_buf_sz > 0
           /\ tile.tx_queue_cnt = tile.tx_queue_cap ) =>
            tile' = [tile EXCEPT !.frag_buf_sz = 0]
      /\ (last.op = "after_frag" /\ last'.op = "after_frag") => tile' = tile ]_vars

\* a staged 65-byte fragment with the highest hint was completed on a full
\* queue holding a base-fee entry: it was dropped
C17_Witness ==
  /\ last.op = "after_frag"
  /\ last.unit # <<>>
  /\ last.unit[Len(last.unit)].sz = 65
  /\ last.opt_sig = OptSig(FALSE, U64Max)
  /\ tile.tx_queue_cnt = tile.tx_queue_cap
  /\ tile.txn_count = tile.tx_queue_cap
  /\ \A i \in 1..tile.tx_queue_cnt : tile.tx_queue[i].fee = <<0, 0, 0, 5000>>
  /\ tile.frag_buf_sz = 0

\* the counter among all callbacks, housekeeping and shutdown included: it
\* moves only on a completion that enqueues
C17_CounterAmongAllCallbacks ==
  [][ tile'.txn_count =
        IF /\ last'.op = "after_frag"
           /\ tile.frag_buf_sz > 0
           /\ tile.tx_queue_cnt < tile.tx_queue_cap
        THEN tile.txn_count + 1
        ELSE tile.txn_count ]_vars

\* ---------------------------------------------------------------------------
\* Initialisation of the scratch region: the size check and the layout
\* [ fd_sequencer_tile_t | padding to 64 | tx_queue[ FD_SEQUENCER_QUEUE_MAX ] ]

AddrSteps == 16
SizeSteps == 8

FD_SEQUENCER_TILE_ALIGN == 128
FD_SEQUENCER_TILE_FOOTPRINT == 2^22

fd_sequencer_tile_scratch_align == FD_SEQUENCER_TILE_ALIGN

fd_sequencer_tile_scratch_footprint == FD_SEQUENCER_TILE_FOOTPRINT

FD_SEQUENCER_QUEUE_MAX == 65536

\* sizeof(fd_sequencer_txn_t): payload, payload_sz, fee, received_ticks, sig
SizeofTxn == FD_SEQUENCER_TXN_MTU + 8 + 8 + 8 + SigSz

\* sizeof(fd_sequencer_tile_t): identity, privkey, five 8-byte counters,
\* parent_hash, queue pointer, cnt, cap, fee_total, last_metrics_ticks,
\* the three-word cfg, frag_buf, frag_buf_sz; every member is 8-aligned at its
\* offset, so there is no interior or trailing padding
SizeofTile ==
  HashSz + PrivKeySz + 5 * 8 + HashSz + 8 + 8 + 8 + 8 + 8 + 3 * 8
    + FD_SEQUENCER_TXN_MTU + 8

QueueAlign == 64

fd_ulong_align_up(x, a) == ((x + (a - 1)) \div a) * a

RequiredSz == SizeofTile + FD_SEQUENCER_QUEUE_MAX * SizeofTxn

\* the returned tile pointer (or NULL), the tile as initialised and the queue
\* base address stored in tile->tx_queue
fd_sequencer_tile_unprivileged_init(scratch, scratch_sz, now) ==
  IF scratch_sz < RequiredSz
  THEN [ret |-> NULL]
  ELSE LET mem == fd_ulong_align_up(scratch + SizeofTile, QueueAlign)
       IN  [ret      |-> [addr |-> scratch],
            tile     |-> InitTile(now, FD_SEQUENCER_QUEUE_MAX),
            tx_queue |-> mem]

Uninit == [uninit |-> TRUE]

\* start addresses aligned for the tile structure (8 bytes), the 64- and
\* 128-aligned ones among them
ScratchAddrs == { 4096 + 8 * k : k \in 0..AddrSteps }

\* region sizes: none, the advertised footprint, and sizes around the one
\* the size check requires
ScratchSizes ==
  {0, fd_sequencer_tile_scratch_footprint, RequiredSz - 1}
    \cup { RequiredSz + 8 * k : k \in (0 - SizeSteps)..SizeSteps }

InitBoot ==
  /\ clock = 0
  /\ tile = Uninit
  /\ phase = "boot"
  /\ chain = [n |-> 0, tip |-> NoHdr, txn_total |-> 0]
  /\ \E scratch \in ScratchAddrs, scratch_sz \in ScratchSizes :
       last = [op |-> "boot", scratch |-> scratch, scratch_sz |-> scratch_sz]

UnprivilegedInit ==
  /\ phase = "boot"
  /\ \E now \in Ticks :
       \E r \in {fd_sequencer_tile_unprivileged_init(last.scratch, last.scratch_sz, now)} :
         IF r.ret = NULL
         THEN /\ phase' = "failed"
              /\ last' = [op |-> "unprivileged_init", scratch |-> last.scratch,
                          scratch_sz |-> last.scratch_sz, ret |-> r.ret]
              /\ UNCHANGED <<tile, clock, chain>>
         ELSE /\ phase' = "running"
              /\ tile' = r.tile
              /\ last' = [op |-> "unprivileged_init", scratch |-> last.scratch,
                          scratch_sz |-> last.scratch_sz, ret |-> r.ret,
                          tx_queue |-> r.tx_queue]
              /\ UNCHANGED <<clock, chain>>

NextBoot == UnprivilegedInit

SpecBoot == InitBoot /\ [][NextBoot]_vars

\* C18: initialisation fails for every region size below
\* sizeof(state) + capacity * sizeof(entry), and whenever it succeeds the
\* queue storage [queue base, queue base + capacity * sizeof(entry)), which
\* starts at the 64-byte-aligned address after the state, lies inside the
\* region [scratch, scratch + scratch_sz), for every start address.
C18_QueueInsideRegion ==
  last.op = "unprivileged_init" =>
    /\ last.scratch_sz < SizeofTile + FD_SEQUENCER_QUEUE_MAX * SizeofTxn
         => last.ret = NULL
    /\ last.ret # NULL =>
         /\ last.tx_queue % 64 = 0
         /\ last.tx_queue >= last.scratch + SizeofTile
         /\ last.tx_queue + FD_SEQUENCER_QUEUE_MAX * SizeofTxn
              <= last.scratch + last.scratch_sz

\* a start address that is not a multiple of 64, a size of exactly
\* sizeof(state) + capacity * sizeof(entry): initialisation succeeds and the
\* queue storage ends past the end of the region
C18_QueueOverrunsRegion ==
  /\ last.op = "unprivileged_init"
  /\ last.ret # NULL
  /\ last.scratch % 64 # 0
  /\ last.scratch_sz = RequiredSz
  /\ last.tx_queue + FD_SEQUENCER_QUEUE_MAX * SizeofTxn
       > last.scratch + last.scratch_sz

\* what the code does guarantee: failure below the unpadded size, and on
\* success the queue inside the region when the start address is a multiple
\* of 64 or the size leaves room for the padding actually inserted
C18_QueueInsideWhenAlignedOrPadded ==
  last.op = "unprivileged_init" =>
    /\ last.scratch_sz < RequiredSz => last.ret = NULL
    /\ last.scratch_sz >= RequiredSz => last.ret = [addr |-> last.scratch]
    /\ last.ret # NULL =>
         LET pad == last.tx_queue - (last.scratch + SizeofTile)
         IN  /\ pad = (64 - (last.scratch % 64)) % 64
             /\ (last.tx_queue + FD_SEQUENCER_QUEUE_MAX * SizeofTxn
                   <= last.scratch + last.scratch_sz)
                  <=> last.scratch_sz >= RequiredSz + pad

\* ---------------------------------------------------------------------------
\* The whole life of the tile: every callback, the metrics snapshot and
\* shutdown, each tick read drawn from Ticks

MetricsWrite ==
  /\ phase = "running"
  /\ \E now \in Ticks :
       /\ tile' = fd_sequencer_tile_metrics_write(tile, now)
       /\ last' = [op |-> "metrics_write", now |-> now]
  /\ UNCHANGED <<clock, phase, chain>>

NextLife ==
  \/ DuringFrag
  \/ AfterFrag
  \/ Housekeeping
  \/ MetricsWrite
  \/ Fini

SpecLife == InitLive /\ [][NextLife]_vars

\* C19: fd_sequencer_tile_fini leaves all 64 bytes of sequencer_privkey zero
\* and changes nothing else (identity, slot, epoch, counters, parent hash,
\* queue, config, the chain of produced headers); no callback before shutdown
\* changes sequencer_privkey, which therefore holds the loaded key for as
\* long as the tile runs and is zeroed once, by shutdown.
C19_KeyZeroedOnlyAtShutdown ==
  /\ [][ IF phase' = "finished"
         THEN /\ phase = "running"
              /\ BsLen(tile'.sequencer_privkey) = PrivKeySz
              /\ tile'.sequencer_privkey = BsFill(0, PrivKeySz)
              /\ tile' = [tile EXCEPT !.sequencer_privkey = tile'.sequencer_privkey]
              /\ chain' = chain
         ELSE tile'.sequencer_privkey = tile.sequencer_privkey ]_vars
  /\ [](phase = "running" => tile.sequencer_privkey = KeyPair.priv)

C19_Witness ==
  /\ phase = "finished"
  /\ last.op = "fini"
  /\ tile.sequencer_privkey = BsFill(0, PrivKeySz)
  /\ tile.sequencer_identity = KeyPair.pub
  /\ chain.n = 2
  /\ tile.txn_count >= 1
  /\ tile.tx_queue_cnt = 1
  /\ tile.last_metrics_ticks > 0

\* C20: the block timer never double-fires.  A producing housekeeping call
\* leaves block_start_ticks equal to the tick it read, no other step changes
\* block_start_ticks, and a call produces only when the tick it reads is at
\* least cfg.block_time_ns after block_start_ticks; so the ticks read by two
\* consecutive producing calls differ by at least cfg.block_time_ns, whatever
\* ticks, earlier ones included, are read by the calls in between.
C20_NeverDoubleFires ==
  [][ IF last'.op = "housekeeping" /\ last'.produced
      THEN /\ tile'.block_start_ticks = last'.now
           /\ last'.now - tile.block_start_ticks >= tile.cfg.block_time_ns
           /\ tile'.cfg = tile.cfg
           /\ chain'.n = chain.n + 1
      ELSE /\ tile'.block_start_ticks = tile.block_start_ticks
           /\ chain' = chain ]_vars

\* a second production, one block interval after the first at the earliest,
\* with an entry still queued that arrived at a tick before the timer value
C20_Witness ==
  /\ last.op = "housekeeping"
  /\ last.produced
  /\ chain.n = 2
  /\ tile.block_start_ticks = last.now
  /\ last.now >= 2 * tile.cfg.block_time_ns
  /\ tile.tx_queue_cnt >= 1
  /\ tile.tx_queue[1].received_ticks < tile.block_start_ticks

\* C21: transactions are conserved under every interleaving of ingestion and
\* housekeeping.  In every reachable state the lifetime counter equals the
\* queue count plus the sum of the txn_count fields of all produced headers;
\* an enqueuing completion adds exactly the staged entry to the queue, a
\* producing housekeeping call moves exactly the entries it reports from the
\* queue into its block (each occurrence either stays queued or is in this
\* block, never both, and the header counts them), and no other step changes
\* the contents of the queue.
C21_Conserved ==
  /\ [](/\ tile.txn_count = tile.tx_queue_cnt + chain.txn_total
        /\ Len(tile.tx_queue) = tile.tx_queue_cnt)
  /\ [][ IF last'.op = "housekeeping" /\ last'.produced
         THEN /\ last'.hdr.txn_count = Len(last'.txns)
              /\ chain'.txn_total = chain.txn_total + Len(last'.txns)
              /\ tile'.txn_count = tile.txn_count
              /\ \A i \in 1..Len(tile.tx_queue) :
                   LET e == tile.tx_queue[i]
                   IN  Count(tile.tx_queue, e)
                         = Count(tile'.tx_queue, e) + Count(last'.txns, e)
              /\ Len(tile.tx_queue) = Len(tile'.tx_queue) + Len(last'.txns)
         ELSE /\ chain'.txn_total = chain.txn_total
              /\ IF tile'.txn_count # tile.txn_count
                 THEN /\ last'.op = "after_frag"
                      /\ tile'.txn_count = tile.txn_count + 1
                      /\ Len(tile'.tx_queue) = Len(tile.tx_queue) + 1
                      /\ \E now \in Ticks :
                           \A i \in 1..Len(tile'.tx_queue) :
                             LET e == tile'.tx_queue[i]
                             IN  Count(tile'.tx_queue, e) = Count(tile.tx_queue, e)
                                   + Count(<<StagedTxn(tile, last'.opt_sig, now)>>, e)
                 ELSE tile'.tx_queue = tile.tx_queue ]_vars

\* two blocks produced holding three transactions between them, and a
\* fourth transaction enqueued since and still queued
C21_Witness ==
  /\ chain.n = 2
  /\ chain.txn_total = 3
  /\ tile.tx_queue_cnt = 1
  /\ tile.txn_count = 4
  /\ last.op = "after_frag"

\* C22: in every state reached from initialisation by ingestion and
\* housekeeping calls, block_count equals current_slot and current_epoch
\* equals floor(current_slot / cfg.epoch_length_slots); both count the
\* produced headers.
C22_SlotAndEpoch ==
  /\ tile.block_count = tile.current_slot
  /\ tile.current_slot = chain.n
  /\ tile.cfg.epoch_length_slots >= 1
  /\ tile.current_epoch = tile.current_slot \div tile.cfg.epoch_length_slots
  /\ tile.current_epoch * tile.cfg.epoch_length_slots <= tile.current_slot
  /\ tile.current_slot < (tile.current_epoch + 1) * tile.cfg.epoch_length_slots

\* epochs of two slots, two blocks produced (the first inside epoch 0, the
\* second opening epoch 1), an entry ingested since
C22_Witness ==
  /\ tile.cfg.epoch_length_slots = 2
  /\ tile.current_slot = 2
  /\ tile.block_count = 2
  /\ tile.current_epoch = 1
  /\ tile.tx_queue_cnt >= 1
  /\ last.op = "after_frag"

\* C23: each staged fragment is enqueued at most once.  after_frag leaves
\* frag_buf_sz = 0 whether the push succeeded or the queue was full, and
\* enqueues at most one entry; with nothing staged it changes no state;
\* frag_buf_sz becomes nonzero only in during_frag, so a completion that
\* follows another without a new delivery finds nothing staged; housekeeping
\* (between during_frag and after_frag or anywhere else) leaves frag_buf and
\* frag_buf_sz as they were.
C23_StagedEnqueuedAtMostOnce ==
  /\ [](last.op = "after_frag" => tile.frag_buf_sz = 0)
  /\ [][ /\ last'.op = "after_frag" =>
              /\ tile'.frag_buf_sz = 0
              /\ tile'.frag_buf = tile.frag_buf
              /\ tile.frag_buf_sz = 0 => tile' = tile
              /\ tile'.tx_queue_cnt \in {tile.tx_queue_cnt, tile.tx_queue_cnt + 1}
              /\ tile.tx_queue_cnt >= tile.tx_queue_cap
                   => tile' = [tile EXCEPT !.frag_buf_sz = 0]
         /\ last'.op = "housekeeping" =>
              /\ tile'.frag_buf = tile.frag_buf
              /\ tile'.frag_buf_sz = tile.frag_buf_sz
         /\ (tile'.frag_buf_sz # tile.frag_buf_sz /\ tile'.frag_buf_sz # 0)
              => last'.op = "during_frag"
         /\ chain' # chain => last'.op = "housekeeping" ]_vars

\* a block produced, a queued entry drained into it, while a delivered
\* fragment waits in the staging buffer for its completion
C23_Witness ==
  /\ last.op = "housekeeping"
  /\ last.produced
  /\ last.txn_cnt >= 1
  /\ tile.frag_buf_sz > 0
  /\ tile.frag_buf = Memcpy(Zeros(FD_SEQUENCER_TXN_MTU), Chunk(2), tile.frag_buf_sz)

\* C24: a scratch region of the size fd_sequencer_tile_scratch_footprint
\* reports (4 MiB), at the alignment fd_sequencer_tile_scratch_align reports,
\* is large enough for fd_sequencer_tile_unprivileged_init to succeed: the
\* advertised footprint is at least
\* sizeof(state) + FD_SEQUENCER_QUEUE_MAX * sizeof(entry).
C24_FootprintSuffices ==
  ( /\ last.op = "unprivileged_init"
    /\ last.scratch_sz = fd_sequencer_tile_scratch_footprint
    /\ last.scratch % fd_sequencer_tile_scratch_align = 0 )
    => /\ last.ret # NULL
       /\ fd_sequencer_tile_scratch_footprint
            >= SizeofTile + FD_SEQUENCER_QUEUE_MAX * SizeofTxn

\* init called on a region of the advertised footprint and alignment returns
\* NULL and leaves the memory uninitialised
C24_FootprintInitFails ==
  /\ last.op = "unprivileged_init"
  /\ last.scratch_sz = fd_sequencer_tile_scratch_footprint
  /\ last.scratch % fd_sequencer_tile_scratch_align = 0
  /\ last.ret = NULL
  /\ phase = "failed"
  /\ tile = Uninit

\* the advertised footprint against what init requires: it holds the state
\* and 3176 entries, not 65536, so init fails on it at every start address
C24_FootprintHoldsFewerEntries ==
  /\ SizeofTile + 3176 * SizeofTxn <= fd_sequencer_tile_scratch_footprint
  /\ fd_sequencer_tile_scratch_footprint < SizeofTile + 3177 * SizeofTxn
  /\ fd_sequencer_tile_scratch_footprint < RequiredSz
  /\ ( last.op = "unprivileged_init"
       /\ last.scratch_sz = fd_sequencer_tile_scratch_footprint ) => last.ret = NULL

=============================================================================
